---- MODULE Spec2Model ----
(***************************************************************************)
(* A model of the side-scrolling runner: the character (RedHatBoy) state   *)
(* machine and its physics context, the obstacles and their collision      *)
(* resolution, and the run state machine Ready -> Walking -> GameOver.     *)
(*                                                                         *)
(* The specifications are defined over the same variables:                 *)
(*   SpecBoy   the character state machine on its own, driven by every     *)
(*             sequence of events (RedHatBoyStateMachine::transition);     *)
(*   Spec      the whole game, driven by key events, new-game clicks and   *)
(*             the orchestrator's update (Game::update);                   *)
(*   SpecLoop  the fixed-timestep loop of GameLoop::start: the keyboard    *)
(*             channel, the display callback and its f32 accumulator;      *)
(*   SpecRight the function Obstacle::right applied to obstacles built     *)
(*             from every short list of boxes;                             *)
(*   SpecRect  the function Rect::intersects applied to every pair of      *)
(*             small rectangles;                                           *)
(*   SpecStart GameLoop::start and WalkTheDog::initialize, step by step,   *)
(*             followed by the display callbacks of a started loop;        *)
(*   SpecSheet the game played with a sprite atlas that lacks one cell;    *)
(*   SpecPlay  GameLoop::start followed by the game it starts;             *)
(*   SpecLayers the game played with background images of two widths.     *)
(***************************************************************************)
EXTENDS Integers, Sequences, FiniteSets, TLC

VARIABLES
    boy,             \* RedHatBoy.state_machine: [state, ctx]
    machine,         \* WalkTheDogStateMachine variant: "Ready", "Walking", "GameOver"
    backgrounds,     \* Walk.backgrounds: the two Images (their bounding boxes)
    obstacles,       \* Walk.obstacles: the live obstacles, in order
    timeline,        \* Walk.timeline
    keystate,        \* KeyState.pressed_keys: the set of pressed key codes
    new_game_event,  \* GameOver.new_game_event: number of click signals waiting
    walk_ticks,      \* history: number of Walking updates of the current game
    new_games,       \* history: number of new games started after a game over
    checks,          \* history: the check_intersection calls of the last update
    last_event,      \* history: the last event delivered to the state machine
    updates_in_state,\* history: Update events since Sliding/Jumping/Falling was entered
    jump_origin_y,   \* history: position.y at the moment of the last Jump
    dropped,         \* history: the obstacles the last Walking update did not retain
    game_loop,       \* GameLoop: [last_frame, accumulated_delta]
    key_events,      \* the keyboard channel: the KeyPress values sent and not yet received
    callback,        \* the display callback: its position, its timestamp, and history
    last_key,        \* history: per key code, the kind of the last event sent
    probe,           \* SpecRight, SpecRect: the arguments under test and the result
    startup,         \* GameLoop::start: its position, the instance passed in, the outcome
    sprite_sheet     \* RedHatBoy.sprite_sheet.frames: the frame names that have a cell

vars == <<boy, machine, backgrounds, obstacles, timeline, keystate,
          new_game_event, walk_ticks, new_games, checks, last_event,
          updates_in_state, jump_origin_y, dropped, game_loop, key_events,
          callback, last_key, probe, startup, sprite_sheet>>

----------------------------------------------------------------------------
(* Program constants.                                                      *)

HEIGHT == 600
TIMELINE_MINIMUM == 1000
OBSTACLE_BUFFER == 20

FLOOR == 480
STARTING_POINT == -50
IDLE_FRAMES == 29
RUN_FRAMES == 23
RUNNING_SPEED == 3
SLIDING_FRAMES == 14
JUMPING_FRAMES == 35
JUMP_SPEED == -25
FALLING_FRAMES == 29
GRAVITY == 1
PLAYER_HEIGHT == HEIGHT - FLOOR
TERMINAL_VELOCITY == 20

IDLE_FRAME_NAME == "Idle"
RUN_FRAME_NAME == "Run"
SLIDING_FRAME_NAME == "Slide"
JUMPING_FRAME_NAME == "Jump"
FALLING_FRAME_NAME == "Dead"

X_OFFSET == 18
Y_OFFSET == 14
WIDTH_OFFSET == 28

----------------------------------------------------------------------------
(* engine.rs: Point and Rect.                                              *)

Point(px, py) == [x |-> px, y |-> py]

Rect_new(p, w, h) == [position |-> p, width |-> w, height |-> h]

new_from_x_y(px, py, w, h) == Rect_new(Point(px, py), w, h)

Rect_default == new_from_x_y(0, 0, 0, 0)

Rect_x(r) == r.position.x

Rect_y(r) == r.position.y

Rect_right(r) == r.position.x + r.width

Rect_bottom(r) == r.position.y + r.height

Rect_set_x(r, px) == [r EXCEPT !.position.x = px]

\* a deviating intersects that counts a shared vertical edge (C21 rejects it)
intersects_touching(a, b) ==
    /\ Rect_x(a) <= Rect_right(b)
    /\ Rect_right(a) > Rect_x(b)
    /\ Rect_y(a) < Rect_bottom(b)
    /\ Rect_bottom(a) > Rect_y(b)

intersects(a, b) ==
    /\ Rect_x(a) < Rect_right(b)
    /\ Rect_right(a) > Rect_x(b)
    /\ Rect_y(a) < Rect_bottom(b)
    /\ Rect_bottom(a) > Rect_y(b)

----------------------------------------------------------------------------
(* game.rs, mod red_hat_boy_states: RedHatBoyContext.                      *)

\* a deviating update with no terminal velocity (C23 rejects it)
Context_update_accelerating(c, frame_count) ==
    LET vy == c.velocity.y + GRAVITY
        fr == IF c.frame < frame_count THEN c.frame + 1 ELSE 0
        py == c.position.y + vy
    IN  [frame    |-> fr,
         position |-> Point(c.position.x, IF py > FLOOR THEN FLOOR ELSE py),
         velocity |-> Point(c.velocity.x, vy)]

Context_update(c, frame_count) ==
    LET vy == IF c.velocity.y < TERMINAL_VELOCITY
              THEN c.velocity.y + GRAVITY
              ELSE c.velocity.y
        fr == IF c.frame < frame_count THEN c.frame + 1 ELSE 0
        py == c.position.y + vy
    IN  [frame    |-> fr,
         position |-> Point(c.position.x, IF py > FLOOR THEN FLOOR ELSE py),
         velocity |-> Point(c.velocity.x, vy)]

reset_frame(c) == [c EXCEPT !.frame = 0]

run_right(c) == [c EXCEPT !.velocity.x = c.velocity.x + RUNNING_SPEED]

set_vertical_velocity(c, vy) == [c EXCEPT !.velocity.y = vy]

\* a deviating stop that keeps the horizontal velocity (C16 rejects it)
stop_vertical_only(c) == [c EXCEPT !.velocity.y = 0]

stop(c) == [c EXCEPT !.velocity = Point(0, 0)]

set_on(c, position) == [c EXCEPT !.position.y = position - PLAYER_HEIGHT]

----------------------------------------------------------------------------
(* RedHatBoyState<S>: a state variant wrapping the context.                *)

State(s, c) == [state |-> s, ctx |-> c]

Idle_new ==
    State("Idle", [frame    |-> 0,
                   position |-> Point(STARTING_POINT, FLOOR),
                   velocity |-> Point(0, 0)])

\* a deviating Idle::run that keeps the idle frame counter (C7 rejects it)
Idle_run_keeping_frame(c) == State("Running", run_right(c))

Idle_run(c) == State("Running", run_right(reset_frame(c)))

\* a deviating Idle::update whose cycle is one update shorter (C26 rejects it)
Idle_update_short(c) == State("Idle", Context_update(c, IDLE_FRAMES - 1))

Idle_update(c) == State("Idle", Context_update(c, IDLE_FRAMES))

Sliding_stand(c) == State("Running", reset_frame(c))

\* a deviating Sliding::update that compares with > (C8 rejects it)
Sliding_update_strict(c) ==
    LET u == Context_update(c, SLIDING_FRAMES)
    IN  IF u.frame > SLIDING_FRAMES
        THEN State("Running", reset_frame(u))
        ELSE State("Sliding", u)

Sliding_update(c) ==
    LET u == Context_update(c, SLIDING_FRAMES)
    IN  IF u.frame >= SLIDING_FRAMES THEN Sliding_stand(u) ELSE State("Sliding", u)

\* a deviating Sliding::knock_out that skips the fall (C32 rejects it)
Sliding_knock_out_at_once(c) == State("KnockedOut", stop(reset_frame(c)))

Sliding_knock_out(c) == State("Falling", stop(reset_frame(c)))

Sliding_land_on(c, position) == State("Running", set_on(c, position))

Running_update(c) == State("Running", Context_update(c, RUN_FRAMES))

Running_slide(c) == State("Sliding", reset_frame(c))

Running_jump(c) == State("Jumping", set_vertical_velocity(reset_frame(c), JUMP_SPEED))

\* a deviating Running::knock_out that keeps the frame counter (C24 rejects it)
Running_knock_out_keeping_frame(c) == State("Falling", stop(c))

Running_knock_out(c) == State("Falling", stop(reset_frame(c)))

Running_land_on(c, position) == State("Running", set_on(c, position))

\* a deviating Jumping::land_on that keeps the frame counter (C34 rejects it)
Jumping_land_on_keeping_frame(c, position) == State("Running", set_on(c, position))

Jumping_land_on(c, position) == State("Running", set_on(reset_frame(c), position))

\* a deviating Jumping::update that lands only below the floor (C9 rejects it)
Jumping_update_strict(c) ==
    LET u == Context_update(c, JUMPING_FRAMES)
    IN  IF u.position.y > FLOOR
        THEN State("Running", set_on(reset_frame(u), HEIGHT))
        ELSE State("Jumping", u)

Jumping_update(c) ==
    LET u == Context_update(c, JUMPING_FRAMES)
    IN  IF u.position.y >= FLOOR THEN Jumping_land_on(u, HEIGHT) ELSE State("Jumping", u)

Jumping_knock_out(c) == State("Falling", stop(reset_frame(c)))

Falling_knock_out(c) == State("KnockedOut", c)

\* a deviating Falling::update that compares with > (C10 rejects it)
Falling_update_strict(c) ==
    LET u == Context_update(c, FALLING_FRAMES)
    IN  IF u.frame > FALLING_FRAMES THEN State("KnockedOut", u) ELSE State("Falling", u)

Falling_update(c) ==
    LET u == Context_update(c, FALLING_FRAMES)
    IN  IF u.frame >= FALLING_FRAMES THEN Falling_knock_out(u) ELSE State("Falling", u)

----------------------------------------------------------------------------
(* enum Event and RedHatBoyStateMachine::transition.                       *)

Event(t) == [type |-> t, position |-> 0]

Land(position) == [type |-> "Land", position |-> position]

EventTypes == {"Run", "Slide", "Update", "Jump", "KnockOut", "Land"}

States == {"Idle", "Running", "Sliding", "Jumping", "Falling", "KnockedOut"}

\* a deviating transition with one more row, Sliding + Jump (C1 rejects it)
transition_sliding_jumps(sm, event) ==
    LET s == sm.state
        t == event.type
        c == sm.ctx
    IN  CASE s = "Idle"    /\ t = "Run"      -> Idle_run(c)
          [] s = "Running" /\ t = "Slide"    -> Running_slide(c)
          [] s = "Idle"    /\ t = "Update"   -> Idle_update(c)
          [] s = "Running" /\ t = "Update"   -> Running_update(c)
          [] s = "Sliding" /\ t = "Update"   -> Sliding_update(c)
          [] s = "Jumping" /\ t = "Update"   -> Jumping_update(c)
          [] s = "Falling" /\ t = "Update"   -> Falling_update(c)
          [] s = "Running" /\ t = "Jump"     -> Running_jump(c)
          [] s = "Sliding" /\ t = "Jump"     -> Running_jump(c)
          [] s = "Sliding" /\ t = "KnockOut" -> Sliding_knock_out(c)
          [] s = "Jumping" /\ t = "KnockOut" -> Jumping_knock_out(c)
          [] s = "Running" /\ t = "KnockOut" -> Running_knock_out(c)
          [] s = "Jumping" /\ t = "Land"     -> Jumping_land_on(c, event.position)
          [] s = "Running" /\ t = "Land"     -> Running_land_on(c, event.position)
          [] s = "Sliding" /\ t = "Land"     -> Sliding_land_on(c, event.position)
          [] OTHER -> sm

transition(sm, event) ==
    LET s == sm.state
        t == event.type
        c == sm.ctx
    IN  CASE s = "Idle"    /\ t = "Run"      -> Idle_run(c)
          [] s = "Running" /\ t = "Slide"    -> Running_slide(c)
          [] s = "Idle"    /\ t = "Update"   -> Idle_update(c)
          [] s = "Running" /\ t = "Update"   -> Running_update(c)
          [] s = "Sliding" /\ t = "Update"   -> Sliding_update(c)
          [] s = "Jumping" /\ t = "Update"   -> Jumping_update(c)
          [] s = "Falling" /\ t = "Update"   -> Falling_update(c)
          [] s = "Running" /\ t = "Jump"     -> Running_jump(c)
          [] s = "Sliding" /\ t = "KnockOut" -> Sliding_knock_out(c)
          [] s = "Jumping" /\ t = "KnockOut" -> Jumping_knock_out(c)
          [] s = "Running" /\ t = "KnockOut" -> Running_knock_out(c)
          [] s = "Jumping" /\ t = "Land"     -> Jumping_land_on(c, event.position)
          [] s = "Running" /\ t = "Land"     -> Running_land_on(c, event.position)
          [] s = "Sliding" /\ t = "Land"     -> Sliding_land_on(c, event.position)
          [] OTHER -> sm

StateMachine_update(sm) == transition(sm, Event("Update"))

\* a deviating knocked_out that is already true while Falling (C5 rejects it)
StateMachine_knocked_out_early(sm) == sm.state \in {"Falling", "KnockedOut"}

StateMachine_knocked_out(sm) == sm.state = "KnockedOut"

StateMachine_frame_name(sm) ==
    CASE sm.state = "Idle"    -> IDLE_FRAME_NAME
      [] sm.state = "Running" -> RUN_FRAME_NAME
      [] sm.state = "Sliding" -> SLIDING_FRAME_NAME
      [] sm.state = "Jumping" -> JUMPING_FRAME_NAME
      [] OTHER                -> FALLING_FRAME_NAME

----------------------------------------------------------------------------
(* The sprite atlas (rhb.json) and the image sizes are assets loaded at     *)
(* initialization; every frame of the atlas has the same cell here.         *)

SPRITE_SOURCE_X == 36
SPRITE_SOURCE_Y == 6
SPRITE_WIDTH == 88
SPRITE_HEIGHT == 128
STONE_WIDTH == 60
STONE_HEIGHT == 54
BACKGROUND_WIDTH == 36

Cell == [frame              |-> [x |-> 0, y |-> 0, w |-> SPRITE_WIDTH, h |-> SPRITE_HEIGHT],
         sprite_source_size |-> [x |-> SPRITE_SOURCE_X, y |-> SPRITE_SOURCE_Y,
                                 w |-> SPRITE_WIDTH, h |-> SPRITE_HEIGHT]]

SheetFrames ==
    [n \in {IDLE_FRAME_NAME, RUN_FRAME_NAME, SLIDING_FRAME_NAME,
            JUMPING_FRAME_NAME, FALLING_FRAME_NAME} |-> [i \in 1..12 |-> Cell]]

----------------------------------------------------------------------------
(* game.rs: RedHatBoy.                                                     *)

frame_name(sm) == <<StateMachine_frame_name(sm), (sm.ctx.frame \div 3) + 1>>

\* the frame names of the complete atlas
FullSheet == {<<n, i>> : n \in DOMAIN SheetFrames, i \in 1..12}

\* sprite_sheet.frames.get(&frame_name): Some(cell) as <<cell>>, None as <<>>
current_sprite(sm) ==
    IF frame_name(sm) \in sprite_sheet
    THEN <<SheetFrames[frame_name(sm)[1]][frame_name(sm)[2]]>>
    ELSE <<>>

\* expect("Cell not found") panics exactly when there is no cell
cell_not_found(sm) == current_sprite(sm) = <<>>

\* the box is defined when the cell is found; when it is not, the caller has
\* panicked (Walking_update) and the value given here is never used
destination_box(sm) ==
    LET sprite == IF cell_not_found(sm) THEN Cell ELSE current_sprite(sm)[1]
    IN  Rect_new(Point(sm.ctx.position.x + sprite.sprite_source_size.x,
                       sm.ctx.position.y + sprite.sprite_source_size.y),
                 sprite.frame.w, sprite.frame.h)

bounding_box(sm) ==
    LET d == Rect_set_x(destination_box(sm), X_OFFSET)
    IN  [d EXCEPT !.width = d.width - WIDTH_OFFSET, !.height = d.height - Y_OFFSET]

walking_speed(sm) == sm.ctx.velocity.x

pos_y(sm) == sm.ctx.position.y

velocity_y(sm) == sm.ctx.velocity.y

RedHatBoy_update(sm) == StateMachine_update(sm)

RedHatBoy_run_right(sm) == transition(sm, Event("Run"))

RedHatBoy_slide(sm) == transition(sm, Event("Slide"))

RedHatBoy_jump(sm) == transition(sm, Event("Jump"))

RedHatBoy_knock_out(sm) == transition(sm, Event("KnockOut"))

RedHatBoy_land_on(sm, position) == transition(sm, Land(position))

\* a deviating reset that keeps the character as it is (C31 rejects it)
RedHatBoy_reset_keeping_state(sm) == sm

RedHatBoy_reset(sm) == Idle_new

----------------------------------------------------------------------------
(* engine.rs: Image; game.rs: the obstacles Platform and Barrier.  Both    *)
(* kinds are records [kind, position, bounding_boxes]; a Barrier's only    *)
(* box is the bounding box of its image.                                   *)

Image_new(position, w, h) == [bounding_box |-> Rect_new(position, w, h)]

Image_set_x(img, px) == [bounding_box |-> Rect_set_x(img.bounding_box, px)]

Image_move_horizontally(img, distance) ==
    Image_set_x(img, Rect_x(img.bounding_box) + distance)

Image_right(img) == Rect_right(img.bounding_box)

Platform_new(position, boxes) ==
    [kind           |-> "Platform",
     position       |-> position,
     bounding_boxes |-> [i \in 1..Len(boxes) |->
                            new_from_x_y(Rect_x(boxes[i]) + position.x,
                                         Rect_y(boxes[i]) + position.y,
                                         boxes[i].width, boxes[i].height)]]

Barrier_new(image) ==
    [kind           |-> "Barrier",
     position       |-> image.bounding_box.position,
     bounding_boxes |-> <<image.bounding_box>>]

Barrier_image(o) == [bounding_box |-> o.bounding_boxes[1]]

Platform_move_horizontally(o, dx) ==
    [o EXCEPT !.position.x = o.position.x + dx,
              !.bounding_boxes = [i \in 1..Len(o.bounding_boxes) |->
                                     Rect_set_x(o.bounding_boxes[i],
                                                o.bounding_boxes[i].position.x + dx)]]

Barrier_move_horizontally(o, dx) ==
    Barrier_new(Image_move_horizontally(Barrier_image(o), dx))

\* the boxes of the platform the character's box intersects, in order
IntersectedBoxes(o, sm) ==
    SelectSeq(o.bounding_boxes, LAMBDA bb : intersects(bounding_box(sm), bb))

\* a deviating Platform::check_intersection that lands a character whose top is
\* below the platform's (C2 rejects it)
Platform_check_intersection_below(o, sm) ==
    LET found == IntersectedBoxes(o, sm)
    IN  IF found # <<>>
        THEN IF velocity_y(sm) > 0 /\ pos_y(sm) > o.position.y
             THEN RedHatBoy_land_on(sm, Rect_y(Head(found)))
             ELSE RedHatBoy_knock_out(sm)
        ELSE sm

\* a deviating Platform::check_intersection that ignores the velocity (C3 rejects it)
Platform_check_intersection_any_velocity(o, sm) ==
    LET found == IntersectedBoxes(o, sm)
    IN  IF found # <<>>
        THEN IF pos_y(sm) < o.position.y
             THEN RedHatBoy_land_on(sm, Rect_y(Head(found)))
             ELSE RedHatBoy_knock_out(sm)
        ELSE sm

Platform_check_intersection(o, sm) ==
    LET found == IntersectedBoxes(o, sm)
    IN  IF found # <<>>
        THEN IF velocity_y(sm) > 0 /\ pos_y(sm) < o.position.y
             THEN RedHatBoy_land_on(sm, Rect_y(Head(found)))
             ELSE RedHatBoy_knock_out(sm)
        ELSE sm

\* a deviating Barrier::check_intersection that resolves like a platform (C4
\* rejects it)
Barrier_check_intersection_landing(o, sm) ==
    IF intersects(bounding_box(sm), Barrier_image(o).bounding_box)
    THEN IF velocity_y(sm) > 0 /\ pos_y(sm) < o.position.y
         THEN RedHatBoy_land_on(sm, o.position.y)
         ELSE RedHatBoy_knock_out(sm)
    ELSE sm

Barrier_check_intersection(o, sm) ==
    IF intersects(bounding_box(sm), Barrier_image(o).bounding_box)
    THEN RedHatBoy_knock_out(sm)
    ELSE sm

Platform_right(o) ==
    Rect_right(IF o.bounding_boxes = <<>> THEN Rect_default
               ELSE o.bounding_boxes[Len(o.bounding_boxes)])

Barrier_right(o) == Image_right(Barrier_image(o))

move_horizontally(o, dx) ==
    IF o.kind = "Platform" THEN Platform_move_horizontally(o, dx)
    ELSE Barrier_move_horizontally(o, dx)

check_intersection(o, sm) ==
    IF o.kind = "Platform" THEN Platform_check_intersection(o, sm)
    ELSE Barrier_check_intersection(o, sm)

right(o) == IF o.kind = "Platform" THEN Platform_right(o) ELSE Barrier_right(o)

Max(S) == CHOOSE m \in S : \A n \in S : n <= m

right_most(obstacle_list) ==
    IF obstacle_list = <<>> THEN 0
    ELSE Max({right(obstacle_list[i]) : i \in 1..Len(obstacle_list)})

----------------------------------------------------------------------------
(* The Segment Generator (module segment): two literal layout templates.   *)

STONE_ON_GROUND == 546
LOW_PLATFORM == 420
HIGH_PLATFORM == 375
STONE_AND_PLATFORM_PLATFORM_OFFSET == 126
STONE_AND_PLATFORM_STONE_OFFSET == 186
PLATFORM_AND_STONE_STONE_OFFSET == 400
PLATFORM_AND_STONE_PLATFORM_OFFSET == 200

FLOATING_PLATFORM_BOUNDING_BOXES ==
    <<new_from_x_y(0, 0, 60, 54),
      new_from_x_y(60, 0, 384 - (60 * 2), 93),
      new_from_x_y(384 - 60, 0, 60, 54)>>

create_floating_platform(position) ==
    Platform_new(position, FLOATING_PLATFORM_BOUNDING_BOXES)

stone_and_platform(offset_x) ==
    <<Barrier_new(Image_new(Point(offset_x + STONE_AND_PLATFORM_STONE_OFFSET,
                                  STONE_ON_GROUND), STONE_WIDTH, STONE_HEIGHT)),
      create_floating_platform(Point(offset_x + STONE_AND_PLATFORM_PLATFORM_OFFSET,
                                     LOW_PLATFORM))>>

platform_and_stone(offset_x) ==
    <<Barrier_new(Image_new(Point(offset_x + PLATFORM_AND_STONE_STONE_OFFSET,
                                  STONE_ON_GROUND), STONE_WIDTH, STONE_HEIGHT)),
      create_floating_platform(Point(offset_x + PLATFORM_AND_STONE_PLATFORM_OFFSET,
                                     HIGH_PLATFORM))>>

----------------------------------------------------------------------------
(* game.rs: Walk and the run state machine WalkTheDogStateMachine.         *)

\* bounds: Walking updates explored in the first game and in a game started
\* after a game over, and new-game clicks that may wait unread
MaxWalkTicks == 50
MaxReplayTicks == 2
MaxClicks == 2

BACKGROUND_HEIGHT == 600

KeyCodes == {"ArrowRight", "ArrowDown", "Space"}

is_pressed(pressed_keys, code) == code \in pressed_keys

Walk_velocity(sm) == -walking_speed(sm)

Walk_knocked_out(sm) == StateMachine_knocked_out(sm)

\* a deviating wrap that re-anchors a layer whose right edge is 0 (C17 rejects it)
scroll_backgrounds_at_edge(bgs, speed) ==
    LET first   == Image_move_horizontally(bgs[1], speed)
        second  == Image_move_horizontally(bgs[2], speed)
        first2  == IF Image_right(first) <= 0
                   THEN Image_set_x(first, Image_right(second)) ELSE first
        second2 == IF Image_right(second) <= 0
                   THEN Image_set_x(second, Image_right(first2)) ELSE second
    IN  <<first2, second2>>

\* Walking::update, lines 163-173: both layers are moved, then wrapped
\* a deviating wrap that re-anchors a layer at its own width, where the
\* second layer started (C37 rejects it)
scroll_backgrounds_to_start(bgs, speed) ==
    LET first   == Image_move_horizontally(bgs[1], speed)
        second  == Image_move_horizontally(bgs[2], speed)
        first2  == IF Image_right(first) < 0
                   THEN Image_set_x(first, first.bounding_box.width) ELSE first
        second2 == IF Image_right(second) < 0
                   THEN Image_set_x(second, second.bounding_box.width) ELSE second
    IN  <<first2, second2>>

scroll_backgrounds(bgs, speed) ==
    LET first   == Image_move_horizontally(bgs[1], speed)
        second  == Image_move_horizontally(bgs[2], speed)
        first2  == IF Image_right(first) < 0
                   THEN Image_set_x(first, Image_right(second)) ELSE first
        second2 == IF Image_right(second) < 0
                   THEN Image_set_x(second, Image_right(first2)) ELSE second
    IN  <<first2, second2>>

\* a deviating retain that keeps an obstacle whose right edge is 0 (C14 rejects it)
retain_at_edge(obs) == SelectSeq(obs, LAMBDA o : right(o) >= 0)

\* Walking::update, line 176
retain(obs) == SelectSeq(obs, LAMBDA o : right(o) > 0)

\* one obstacle of an iter_mut().for_each pass: it is moved, then checked
\* against the character; acc carries the obstacles moved so far, the
\* character and the record of every check made
move_and_check_one(acc, obstacle, speed) ==
    LET o     == move_horizontally(obstacle, speed)
        after == check_intersection(o, acc.boy)
    IN  [obstacles |-> Append(acc.obstacles, o),
         boy       |-> after,
         checks    |-> Append(acc.checks,
                              [obstacle |-> o, before |-> acc.boy, after |-> after])]

\* the pass over obs[i..], in order (each step's result is computed once)
RECURSIVE move_and_check_from(_, _, _, _)
move_and_check_from(acc, obs, i, speed) ==
    IF i > Len(obs) THEN acc
    ELSE CHOOSE r \in {move_and_check_from(a, obs, i + 1, speed) :
                         a \in {move_and_check_one(acc, obs[i], speed)}} : TRUE

move_and_check(obs, sm, speed) ==
    move_and_check_from([obstacles |-> <<>>, boy |-> sm, checks |-> <<>>],
                        obs, 1, speed)

\* a deviating generator that leaves the timeline where it was (C18 rejects it)
generate_next_segment_keeping_timeline(obs, tl, next_segment) ==
    LET next_obstacles ==
            CASE next_segment = 0 -> stone_and_platform(tl + OBSTACLE_BUFFER)
              [] next_segment = 1 -> platform_and_stone(tl + OBSTACLE_BUFFER)
              [] OTHER -> <<>>
    IN  [timeline |-> tl, obstacles |-> obs \o next_obstacles]

\* Walk::generate_next_segment with the drawn template next_segment
generate_next_segment(obs, tl, next_segment) ==
    LET next_obstacles ==
            CASE next_segment = 0 -> stone_and_platform(tl + OBSTACLE_BUFFER)
              [] next_segment = 1 -> platform_and_stone(tl + OBSTACLE_BUFFER)
              [] OTHER -> <<>>
    IN  [timeline |-> right_most(next_obstacles), obstacles |-> obs \o next_obstacles]

\* a deviating Walk::reset that keeps the obstacles of the lost game (C6 rejects it)
Walk_reset_keeping_obstacles ==
    [boy       |-> RedHatBoy_reset(boy),
     obstacles |-> obstacles,
     timeline  |-> right_most(obstacles)]

Walk_reset ==
    [boy       |-> RedHatBoy_reset(boy),
     obstacles |-> stone_and_platform(0),
     timeline  |-> right_most(stone_and_platform(0))]

\* an instance whose machine is None has no character
NoBoy == State("None", [frame |-> 0, position |-> Point(0, 0), velocity |-> Point(0, 0)])

\* the game loop and the obstacle probe are not part of Game::update
LoopUnchanged ==
    UNCHANGED <<game_loop, key_events, callback, last_key, probe, startup,
                sprite_sheet>>

HistoryUnchanged ==
    /\ UNCHANGED <<last_event, updates_in_state, jump_origin_y>>
    /\ LoopUnchanged

\* Game::update is called by the display callback only, and the callback
\* runs only once GameLoop::start has scheduled it (engine.rs 142-159)
update_called == startup.scheduled

\* a deviating WalkTheDog::update that takes the machine and does not put the
\* updated one back (C33 rejects it)
machine_replace_nothing(updated_machine) == "None"

\* WalkTheDog::update, lines 312-314: self.machine.replace(machine.update(..))
machine_replace(updated_machine) == updated_machine

Ready_update ==
    /\ update_called
    /\ machine = "Ready"
    /\ LET updated == RedHatBoy_update(boy)
       IN  IF is_pressed(keystate, "ArrowRight")
           THEN /\ boy' = RedHatBoy_run_right(updated)
                /\ machine' = machine_replace("Walking")
           ELSE /\ boy' = updated
                /\ machine' = machine_replace("Ready")
    /\ checks' = <<>>
    /\ dropped' = <<>>
    /\ UNCHANGED <<backgrounds, obstacles, timeline, keystate, new_game_event,
                   walk_ticks, new_games>>
    /\ HistoryUnchanged

\* a deviating key handling that slides before it jumps (C25 rejects it)
handle_keys_slide_first(sm, pressed_keys) ==
    LET slid   == IF is_pressed(pressed_keys, "ArrowDown")
                  THEN RedHatBoy_slide(sm) ELSE sm
        jumped == IF is_pressed(pressed_keys, "Space")
                  THEN RedHatBoy_jump(slid) ELSE slid
    IN  jumped

\* a deviating key handling in which ArrowDown overrides Space (C35 rejects it)
handle_keys_slide_else_jump(sm, pressed_keys) ==
    IF is_pressed(pressed_keys, "ArrowDown") THEN RedHatBoy_slide(sm)
    ELSE IF is_pressed(pressed_keys, "Space") THEN RedHatBoy_jump(sm)
    ELSE sm

\* Walking::update, lines 153-159: the keys that are read, in the order read
handle_keys(sm, pressed_keys) ==
    LET jumped == IF is_pressed(pressed_keys, "Space")
                  THEN RedHatBoy_jump(sm) ELSE sm
        slid   == IF is_pressed(pressed_keys, "ArrowDown")
                  THEN RedHatBoy_slide(jumped) ELSE jumped
    IN  slid

\* the first check_intersection of the two passes that looks up a frame name
\* without a cell: RedHatBoy::bounding_box panics there (0 when there is none)
first_panic(made) ==
    LET lacking == {i \in 1..Len(made) :
                      /\ cell_not_found(made[i].before)
                      /\ made[i].obstacle.bounding_boxes # <<>>}
    IN  IF lacking = {} THEN 0 ELSE CHOOSE i \in lacking : \A j \in lacking : i <= j

Walking_update ==
    /\ update_called
    /\ machine = "Walking"
    /\ walk_ticks < (IF new_games = 0 THEN MaxWalkTicks ELSE MaxReplayTicks)
    /\ walk_ticks' = walk_ticks + 1
    /\ LET slid == handle_keys(boy, keystate)
       IN  \E updated \in {RedHatBoy_update(slid)} :
           \E walking_spped \in {Walk_velocity(updated)} :
           \E pass1 \in {move_and_check(retain(obstacles), updated, walking_spped)} :
           \E pass2 \in {move_and_check(pass1.obstacles, pass1.boy, walking_spped)} :
           \E panic \in {first_panic(pass1.checks \o pass2.checks)} :
             /\ dropped' = SelectSeq(obstacles, LAMBDA o :
                                        \A i \in 1..Len(retain(obstacles)) :
                                            retain(obstacles)[i] # o)
             /\ IF panic > 0
                THEN \* WalkTheDog::update, lines 312-313: the machine was taken
                     \* out of the instance and is lost with the panic
                     /\ machine' = "None"
                     /\ boy' = NoBoy
                     /\ backgrounds' = <<>>
                     /\ obstacles' = <<>>
                     /\ timeline' = 0
                     /\ checks' = SubSeq(pass1.checks \o pass2.checks, 1, panic)
                     \* the callback does not reach its request_animation_frame
                     \* (engine.rs 152)
                     /\ startup' = [startup EXCEPT !.scheduled = FALSE,
                                                    !.outcome = "Panic"]
                     /\ UNCHANGED new_game_event
                ELSE /\ backgrounds' = scroll_backgrounds(backgrounds, walking_spped)
                     /\ boy' = pass2.boy
                     /\ checks' = pass1.checks \o pass2.checks
                     /\ UNCHANGED startup
                     /\ IF timeline < TIMELINE_MINIMUM
                        THEN \E next_segment \in 0..1 :
                               LET g == generate_next_segment(pass2.obstacles,
                                                              timeline, next_segment)
                               IN  /\ obstacles' = g.obstacles
                                   /\ timeline' = g.timeline
                        ELSE /\ obstacles' = pass2.obstacles
                             /\ timeline' = timeline + walking_spped
                     /\ IF Walk_knocked_out(pass2.boy)
                        THEN /\ machine' = machine_replace("GameOver")
                             /\ new_game_event' = 0
                        ELSE /\ machine' = machine_replace("Walking")
                             /\ UNCHANGED new_game_event
    /\ UNCHANGED <<keystate, new_games, last_event, updates_in_state, jump_origin_y,
                   game_loop, key_events, callback, last_key, probe, sprite_sheet>>

\* a deviating GameOver that also takes a pressed key for the signal (C30
\* rejects it)
new_game_pressed_or_key(signals) == signals > 0 \/ keystate # {}

\* GameOver::new_game_pressed: try_next() gives Ok(Some(())) when a click waits
new_game_pressed(signals) == signals > 0

GameOver_update ==
    /\ update_called
    /\ machine = "GameOver"
    /\ machine' = machine_replace(IF new_game_pressed(new_game_event)
                                  THEN "Ready" ELSE "GameOver")
    /\ IF new_game_pressed(new_game_event)
       THEN /\ boy' = Walk_reset.boy
            /\ obstacles' = Walk_reset.obstacles
            /\ timeline' = Walk_reset.timeline
            /\ new_game_event' = 0
            /\ walk_ticks' = 0
            /\ new_games' = new_games + 1
       ELSE UNCHANGED <<boy, obstacles, timeline, new_game_event,
                        walk_ticks, new_games>>
    /\ checks' = <<>>
    /\ dropped' = <<>>
    /\ UNCHANGED <<backgrounds, keystate>>
    /\ HistoryUnchanged

\* the click handler of the "new game" button shown while the game is over
new_game_click ==
    /\ machine = "GameOver"
    /\ new_game_event < MaxClicks
    /\ new_game_event' = new_game_event + 1
    /\ UNCHANGED <<boy, machine, backgrounds, obstacles, timeline, keystate,
                   walk_ticks, new_games, checks, dropped>>
    /\ HistoryUnchanged

\* engine.rs process_input: the key events that arrived are applied in order
KeyPresses == {[kind |-> k, code |-> c] : k \in {"KeyDown", "KeyUp"}, c \in KeyCodes}

set_pressed(pressed_keys, code) == pressed_keys \cup {code}

set_released(pressed_keys, code) == pressed_keys \ {code}

\* a deviating match that never releases a key (C13 rejects it)
apply_key_event_ignoring_keyup(pressed_keys, event) ==
    IF event.kind = "KeyDown"
    THEN set_pressed(pressed_keys, event.code)
    ELSE pressed_keys

\* the match of process_input on one received event, lines 296-299
apply_key_event(pressed_keys, event) ==
    IF event.kind = "KeyDown"
    THEN set_pressed(pressed_keys, event.code)
    ELSE set_released(pressed_keys, event.code)

\* the loop of process_input over the events received from the channel
RECURSIVE apply_key_events(_, _)
apply_key_events(pressed_keys, events) ==
    IF events = <<>> THEN pressed_keys
    ELSE apply_key_events(apply_key_event(pressed_keys, Head(events)), Tail(events))

\* a deviating process_input that returns after the first event (C36 rejects it)
process_input_once(pressed_keys, events) ==
    IF events = <<>> THEN pressed_keys ELSE apply_key_event(pressed_keys, Head(events))

\* process_input, lines 292-303: every event in the channel, until it is empty
process_input_loop(pressed_keys, events) == apply_key_events(pressed_keys, events)

\* history: the keys with a key-down in the events and a key-up as their
\* last event
tapped_keys(events) ==
    {code \in KeyCodes :
       \E i \in 1..Len(events) : \E j \in (i + 1)..Len(events) :
          /\ events[i] = [kind |-> "KeyDown", code |-> code]
          /\ events[j] = [kind |-> "KeyUp", code |-> code]
          /\ \A k \in (j + 1)..Len(events) : events[k].code # code}

\* inside the whole game: a display callback that received one key event
process_input ==
    /\ update_called
    /\ \E event \in KeyPresses :
         keystate' = apply_key_events(keystate, <<event>>)
    /\ UNCHANGED <<boy, machine, backgrounds, obstacles, timeline, new_game_event,
                   walk_ticks, new_games, checks, dropped>>
    /\ HistoryUnchanged

----------------------------------------------------------------------------
(* The character state machine on its own: every event, in every order.    *)

NoJump == HEIGHT + 1

NoEvent == Event("None")

TimedStates == {"Sliding", "Jumping", "Falling"}

LandPositions == {HEIGHT, LOW_PLATFORM}

WorldUnchanged ==
    /\ UNCHANGED <<machine, backgrounds, obstacles, timeline, keystate,
                   new_game_event, walk_ticks, new_games, checks, dropped>>
    /\ LoopUnchanged

Deliver(event) ==
    /\ boy' = transition(boy, event)
    /\ last_event' = event
    /\ updates_in_state' =
         IF event.type = "Update"
         THEN IF boy.state \in TimedStates THEN updates_in_state + 1 ELSE 0
         ELSE IF boy'.state # boy.state THEN 0 ELSE updates_in_state
    /\ jump_origin_y' =
         IF boy.state = "Running" /\ event.type = "Jump" THEN boy.ctx.position.y
         ELSE IF boy.state = "Jumping" /\ (event.type = "Update" \/ boy'.state = "Jumping")
              THEN jump_origin_y
              ELSE NoJump
    /\ WorldUnchanged

DeliverRun == Deliver(Event("Run"))

DeliverSlide == Deliver(Event("Slide"))

DeliverJump == Deliver(Event("Jump"))

DeliverKnockOut == Deliver(Event("KnockOut"))

DeliverLand == \E position \in LandPositions : Deliver(Land(position))

DeliverUpdate == Deliver(Event("Update"))

\* RedHatBoy::reset, which the game calls only on a knocked-out character
DeliverReset ==
    /\ boy.state = "KnockedOut"
    /\ boy' = RedHatBoy_reset(boy)
    /\ last_event' = Event("Reset")
    /\ updates_in_state' = 0
    /\ jump_origin_y' = NoJump
    /\ WorldUnchanged

----------------------------------------------------------------------------
(* Obstacle::right as a function of the obstacle alone.                    *)

\* an optional value: <<>> or <<v>>
NoResult == <<>>

NoProbe == [obstacle |-> NoResult, right |-> NoResult]

\* bound: the boxes of a platform under test
MaxBoxes == 3

\* the boxes a platform under test is built from, relative to its position
ProbeBoxes == {Rect_new(Point(px, 0), w, STONE_HEIGHT) : px \in {0, 60}, w \in {30, 60, 120}}

ProbePositions == {Point(0, LOW_PLATFORM), Point(200, HIGH_PLATFORM)}

\* every list of 1 .. MaxBoxes boxes, in every order
BoxLists == UNION {[1..n -> ProbeBoxes] : n \in 1..MaxBoxes}

ProbeObstacles ==
    {Platform_new(position, boxes) : position \in ProbePositions, boxes \in BoxLists}
    \cup {Barrier_new(Image_new(position, w, STONE_HEIGHT)) :
             position \in ProbePositions, w \in {30, 60, 120}}

\* a call of Obstacle::right on the obstacle under test
call_right ==
    /\ probe.obstacle # NoResult
    /\ probe.right = NoResult
    /\ probe' = [probe EXCEPT !.right = <<right(probe.obstacle[1])>>]
    /\ UNCHANGED <<boy, machine, backgrounds, obstacles, timeline, keystate,
                   new_game_event, walk_ticks, new_games, checks, last_event,
                   updates_in_state, jump_origin_y, dropped, game_loop,
                   key_events, callback, last_key, startup, sprite_sheet>>

----------------------------------------------------------------------------
(* Rect::intersects as a function of two rectangles.                       *)

\* bounds: the coordinates and the sides of the rectangles under test
MaxCoord == 3
MaxSide == 2

ProbeRects ==
    {new_from_x_y(px, py, w, h) : px \in 0..MaxCoord, py \in 0..MaxCoord,
                                  w \in 0..MaxSide, h \in 0..MaxSide}

OnlyProbeChanges ==
    UNCHANGED <<boy, machine, backgrounds, obstacles, timeline, keystate,
                new_game_event, walk_ticks, new_games, checks, last_event,
                updates_in_state, jump_origin_y, dropped, game_loop,
                key_events, callback, last_key, startup, sprite_sheet>>

\* a.intersects(&b) and b.intersects(&a) on the rectangles under test
call_intersects ==
    /\ probe.result = NoResult
    /\ probe' = [probe EXCEPT !.result = <<intersects(probe.a, probe.b),
                                           intersects(probe.b, probe.a)>>]
    /\ OnlyProbeChanges

----------------------------------------------------------------------------
(* engine.rs: GameLoop::start, the keyboard channel and the display        *)
(* callback.  accumulated_delta is an f32: it is represented by an integer *)
(* number of units of 2^-18 ms and every f32 operation rounds its result   *)
(* to the nearest value with a 24-bit significand, ties to even.  The      *)
(* timestamps are whole milliseconds counted from the start of the loop,   *)
(* so that perf - last_frame and its cast to f32 are exact.                *)

\* one millisecond in units of 2^-18 ms
MS == 262144

\* 2^24: below it every integer number of units is an f32
F32_SIGNIFICAND == 16777216

\* 1.0 / 60.0 * 1000.0 evaluated in f32 is 16.666667938232422 = 4369067 * 2^-18
FRAME_SIZE == 4369067

\* bounds: the last timestamp in ms, the key events waiting in the channel
MaxTime == 400
MaxKeyEvents == 2

\* the time in ms between two display callbacks
Deltas == {0, 17, 200, 400}

\* the spacing of the f32 values around n units
RECURSIVE f32_spacing(_)
f32_spacing(n) == IF n < F32_SIGNIFICAND THEN 1 ELSE 2 * f32_spacing(n \div 2)

\* the f32 nearest to n units (n >= 0), ties to the even significand
as_f32(n) ==
    LET q    == f32_spacing(n)
        down == n - (n % q)
        up   == down + q
    IN  IF 2 * (n - down) < q THEN down
        ELSE IF 2 * (n - down) > q THEN up
        ELSE IF (down \div q) % 2 = 0 THEN down ELSE up

NoKey == "None"

\* a deviating loop that runs at most one update per callback (C11 rejects it)
keeps_updating_once(accumulated_delta, updates) ==
    accumulated_delta > FRAME_SIZE /\ updates = 0

\* the condition of the while loop, line 146
keeps_updating(accumulated_delta, updates) == accumulated_delta > FRAME_SIZE

GameUnchanged ==
    UNCHANGED <<boy, machine, backgrounds, obstacles, timeline, new_game_event,
                walk_ticks, new_games, checks, last_event, updates_in_state,
                jump_origin_y, dropped, probe, startup, sprite_sheet>>

\* the onkeydown / onkeyup closures of prepare_input send into the channel;
\* the browser runs them between display callbacks, never inside one
send_key(kind, code) ==
    /\ callback.pc = "idle"
    /\ Len(key_events) < MaxKeyEvents
    /\ key_events' = Append(key_events, [kind |-> kind, code |-> code])
    /\ last_key' = [last_key EXCEPT ![code] = kind]
    /\ UNCHANGED <<keystate, game_loop, callback>>
    /\ GameUnchanged

on_keydown == \E code \in KeyCodes : send_key("KeyDown", code)

on_keyup == \E code \in KeyCodes : send_key("KeyUp", code)

\* the display callback up to the while loop, lines 143-144
frame_begin ==
    /\ startup.scheduled
    /\ callback.pc = "idle"
    /\ \E dt \in Deltas :
         /\ game_loop.last_frame + dt <= MaxTime
         /\ callback' = [callback EXCEPT !.pc = "loop",
                                         !.perf = game_loop.last_frame + dt,
                                         !.updates = 0, !.draws = 0, !.drains = 1,
                                         !.tapped = tapped_keys(key_events),
                                         !.last_step = "process_input"]
         /\ game_loop' = [game_loop EXCEPT !.accumulated_delta =
                             as_f32(game_loop.accumulated_delta + as_f32(dt * MS))]
    /\ keystate' = process_input_loop(keystate, key_events)
    /\ key_events' = <<>>
    /\ UNCHANGED last_key
    /\ GameUnchanged

\* one iteration of the while loop, lines 146-149; what game.update does
\* with the key state is the subject of Spec, here the call is recorded
frame_update ==
    /\ callback.pc = "loop"
    /\ keeps_updating(game_loop.accumulated_delta, callback.updates)
    /\ game_loop' = [game_loop EXCEPT !.accumulated_delta =
                        as_f32(game_loop.accumulated_delta - FRAME_SIZE)]
    /\ callback' = [callback EXCEPT !.updates = callback.updates + 1,
                                    !.total_updates = callback.total_updates + 1,
                                    !.seen = keystate,
                                    !.last_step = "update"]
    /\ UNCHANGED <<keystate, key_events, last_key>>
    /\ GameUnchanged

\* the end of the display callback, lines 150-152
frame_draw ==
    /\ callback.pc = "loop"
    /\ ~keeps_updating(game_loop.accumulated_delta, callback.updates)
    /\ game_loop' = [game_loop EXCEPT !.last_frame = callback.perf]
    /\ callback' = [callback EXCEPT !.pc = "idle",
                                    !.draws = callback.draws + 1,
                                    !.tapped = {},
                                    !.last_step = "draw"]
    /\ UNCHANGED <<keystate, key_events, last_key>>
    /\ GameUnchanged

----------------------------------------------------------------------------
(* engine.rs GameLoop::start and game.rs WalkTheDog::initialize: the steps *)
(* that can fail, in the order in which they are awaited.                  *)

\* kind "call" and "load" fail with Err (the ? operator), "decode" panics
\* (expect), "match" is the match on self.machine
StartSteps ==
    <<[name |-> "prepare_input",            kind |-> "call"],
      [name |-> "match self.machine",       kind |-> "match"],
      [name |-> "fetch rhb.json",           kind |-> "load"],
      [name |-> "decode rhb.json",          kind |-> "decode"],
      [name |-> "load rhb.png",             kind |-> "load"],
      [name |-> "Audio::new",               kind |-> "call"],
      [name |-> "load SFX_Jump_23.mp3",     kind |-> "load"],
      [name |-> "load background_song.mp3", kind |-> "load"],
      [name |-> "play_looping_sound",       kind |-> "call"],
      [name |-> "load Stone.png",           kind |-> "load"],
      [name |-> "fetch tiles.json",         kind |-> "load"],
      [name |-> "decode tiles.json",        kind |-> "decode"],
      [name |-> "load tiles.png",           kind |-> "load"],
      [name |-> "load BG.png",              kind |-> "load"],
      [name |-> "browser::now",             kind |-> "call"],
      [name |-> "browser::context",         kind |-> "call"],
      [name |-> "request_animation_frame",  kind |-> "call"]>>

\* the positions of GameLoop::start: in step i, or returned
Returned == Len(StartSteps) + 1

\* the steps of initialize: the first one and the last one
InitializeFirst == CHOOSE i \in 1..Len(StartSteps) : StartSteps[i].kind = "match"

InitializeLast ==
    CHOOSE i \in 1..Len(StartSteps) : StartSteps[i].name = "load BG.png"

Started ==
    [pc |-> Returned, instance |-> "None", outcome |-> "Ok", scheduled |-> TRUE,
     failed |-> 0]

\* a deviating initialize that loads again over an initialized instance (C27 rejects it)
initialize_match_any(instance) == TRUE

\* WalkTheDog::initialize, lines 260-261 and 307: only machine = None proceeds
initialize_match(instance) == instance = "None"

\* a deviating start that carries on after a failed step (C28 rejects it)
after_step_ignoring_errors(pc, ok) == pc + 1

\* the ? operator and expect: a failed step ends GameLoop::start
after_step(pc, ok) == IF ok THEN pc + 1 ELSE Returned

\* one step of GameLoop::start, with the outcome the environment gives it
start_step ==
    /\ startup.pc < Returned
    /\ \E ok \in (IF StartSteps[startup.pc].kind = "match"
                  THEN {initialize_match(startup.instance)} ELSE BOOLEAN) :
         /\ startup' =
              [startup EXCEPT
                 !.pc = after_step(startup.pc, ok),
                 !.outcome = IF ~ok
                             THEN IF StartSteps[startup.pc].kind = "decode"
                                  THEN "Panic" ELSE "Err"
                             ELSE IF startup.pc = Len(StartSteps)
                                  THEN "Ok" ELSE startup.outcome,
                 !.failed = IF ok THEN startup.failed ELSE startup.pc,
                 !.scheduled = ok /\ startup.pc = Len(StartSteps)]
         /\ IF ok /\ startup.pc = InitializeLast
            THEN /\ boy' = Idle_new
                 /\ machine' = "Ready"
                 /\ backgrounds' =
                      <<Image_new(Point(0, 0), BACKGROUND_WIDTH, BACKGROUND_HEIGHT),
                        Image_new(Point(BACKGROUND_WIDTH, 0), BACKGROUND_WIDTH,
                                  BACKGROUND_HEIGHT)>>
                 /\ obstacles' = stone_and_platform(0)
                 /\ timeline' = right_most(stone_and_platform(0))
            ELSE UNCHANGED <<boy, machine, backgrounds, obstacles, timeline>>
    /\ UNCHANGED <<keystate, new_game_event, walk_ticks, new_games, checks,
                   last_event, updates_in_state, jump_origin_y, dropped,
                   game_loop, key_events, callback, last_key, probe, sprite_sheet>>

\* WalkTheDog::new: no run state machine, no Walk
NoWalk ==
    /\ boy = NoBoy
    /\ machine = "None"
    /\ backgrounds = <<>>
    /\ obstacles = <<>>
    /\ timeline = 0

----------------------------------------------------------------------------
(* Specifications.                                                         *)

\* WalkTheDog::initialize, lines 284-305: the instance it returns
InitWalk ==
    /\ boy = Idle_new
    /\ machine = "Ready"
    /\ backgrounds = <<Image_new(Point(0, 0), BACKGROUND_WIDTH, BACKGROUND_HEIGHT),
                       Image_new(Point(BACKGROUND_WIDTH, 0), BACKGROUND_WIDTH,
                                 BACKGROUND_HEIGHT)>>
    /\ obstacles = stone_and_platform(0)
    /\ timeline = right_most(stone_and_platform(0))

\* GameLoop::start, lines 131-141, and the history variables
InitLoop ==
    /\ keystate = {}
    /\ new_game_event = 0
    /\ walk_ticks = 0
    /\ new_games = 0
    /\ checks = <<>>
    /\ last_event = NoEvent
    /\ updates_in_state = 0
    /\ jump_origin_y = NoJump
    /\ dropped = <<>>
    /\ game_loop = [last_frame |-> 0, accumulated_delta |-> 0]
    /\ key_events = <<>>
    /\ callback = [pc |-> "idle", perf |-> 0, updates |-> 0, draws |-> 0,
                   drains |-> 0, total_updates |-> 0, seen |-> {},
                   tapped |-> {}, last_step |-> "none"]
    /\ last_key = [code \in KeyCodes |-> NoKey]

\* the state in which GameLoop::start has returned Ok
InitGame == InitWalk /\ InitLoop /\ startup = Started /\ sprite_sheet = FullSheet

Init == InitGame /\ probe = NoProbe

Next ==
    \/ process_input
    \/ Ready_update
    \/ Walking_update
    \/ GameOver_update
    \/ new_game_click

Spec == Init /\ [][Next]_vars

NextBoy ==
    \/ DeliverRun
    \/ DeliverSlide
    \/ DeliverJump
    \/ DeliverKnockOut
    \/ DeliverLand
    \/ DeliverUpdate
    \/ DeliverReset

SpecBoy == Init /\ [][NextBoy]_vars

NextLoop ==
    \/ on_keydown
    \/ on_keyup
    \/ frame_begin
    \/ frame_update
    \/ frame_draw

SpecLoop == Init /\ [][NextLoop]_vars

InitRight ==
    /\ InitGame
    /\ probe \in {[obstacle |-> <<o>>, right |-> NoResult] : o \in ProbeObstacles}

NextRight == call_right

SpecRight == InitRight /\ [][NextRight]_vars

InitRect ==
    /\ InitGame
    /\ probe \in {[a |-> a, b |-> b, result |-> NoResult] :
                    a \in ProbeRects, b \in ProbeRects}

NextRect == call_intersects

SpecRect == InitRect /\ [][NextRect]_vars

\* GameLoop::start is called with a new instance or with an initialized one
InitCall ==
    /\ startup \in {[pc |-> 1, instance |-> i, outcome |-> "None",
                      scheduled |-> FALSE, failed |-> 0] : i \in {"None", "Some"}}
    /\ IF startup.instance = "None" THEN NoWalk ELSE InitWalk
    /\ InitLoop
    /\ probe = NoProbe

InitStart == InitCall /\ sprite_sheet = FullSheet

NextStart ==
    \/ start_step
    \/ frame_begin
    \/ frame_update
    \/ frame_draw

SpecStart == InitStart /\ [][NextStart]_vars

\* the frame names an atlas under test lacks, one per atlas
MissingCells == {<<RUN_FRAME_NAME, 2>>, <<SLIDING_FRAME_NAME, 1>>, <<FALLING_FRAME_NAME, 1>>}

\* the game started with an atlas (rhb.json) that lacks one cell
InitSheet ==
    /\ InitWalk
    /\ InitLoop
    /\ startup = Started
    /\ probe = NoProbe
    /\ sprite_sheet \in {FullSheet \ {missing} : missing \in MissingCells}

SpecSheet == InitSheet /\ [][Next]_vars

\* the atlases GameLoop::start is followed through to game over with: the
\* complete one and one on which the first Walking updates panic
PlaySheets == {FullSheet, FullSheet \ {<<RUN_FRAME_NAME, 2>>}}

InitPlay == InitCall /\ sprite_sheet \in PlaySheets

NextPlay ==
    \/ start_step
    \/ process_input
    \/ Ready_update
    \/ Walking_update
    \/ GameOver_update
    \/ new_game_click

SpecPlay == InitPlay /\ [][NextPlay]_vars

\* the widths of BG.png the layers are checked with: a narrow one that is
\* no multiple of the scroll speed, and the one of the other specifications
LayerWidths == {RUNNING_SPEED + 1, BACKGROUND_WIDTH}

\* WalkTheDog::initialize, lines 281-298: the two layers of an image of width w
Layers(w) ==
    <<Image_new(Point(0, 0), w, BACKGROUND_HEIGHT),
      Image_new(Point(w, 0), w, BACKGROUND_HEIGHT)>>

\* the started game, with a background image of one of the widths
InitLayers ==
    /\ boy = Idle_new
    /\ machine = "Ready"
    /\ backgrounds \in {Layers(w) : w \in LayerWidths}
    /\ obstacles = stone_and_platform(0)
    /\ timeline = right_most(stone_and_platform(0))
    /\ InitLoop
    /\ startup = Started
    /\ sprite_sheet = FullSheet
    /\ probe = NoProbe

SpecLayers == InitLayers /\ [][Next]_vars

----------------------------------------------------------------------------
(* Claims.                                                                 *)

\* the rows of the transition table: (state, event) pairs with a handler
TransitionTable(s, t) ==
    \/ s = "Idle" /\ t = "Run"
    \/ s = "Running" /\ t \in {"Slide", "Jump"}
    \/ s \in {"Running", "Sliding", "Jumping"} /\ t \in {"KnockOut", "Land"}
    \/ s \in {"Idle", "Running", "Sliding", "Jumping", "Falling"} /\ t = "Update"

\* C1: an event delivered to a state that has no row for it in the transition
\* table leaves the state machine unchanged: same variant, same frame, position
\* and velocity.
C1_NoRowIsIdentity ==
    [][(last_event'.type \in EventTypes
        /\ ~TransitionTable(boy.state, last_event'.type)) => boy' = boy]_vars

C1_Witness ==
    /\ boy.state = "Falling"
    /\ boy.ctx.frame > 0
    /\ last_event = Land(LOW_PLATFORM)

----------------------------------------------------------------------------
(* The check_intersection calls of the last Walking update.                *)

CheckOf(i) == checks[i]

PlatformHit(e) ==
    /\ e.obstacle.kind = "Platform"
    /\ \E k \in 1..Len(e.obstacle.bounding_boxes) :
         intersects(bounding_box(e.before), e.obstacle.bounding_boxes[k])

\* the first box of the platform, in order, that the character's box intersects
FirstHitBox(e) ==
    e.obstacle.bounding_boxes[
        CHOOSE k \in 1..Len(e.obstacle.bounding_boxes) :
            /\ intersects(bounding_box(e.before), e.obstacle.bounding_boxes[k])
            /\ \A j \in 1..(k - 1) :
                 ~intersects(bounding_box(e.before), e.obstacle.bounding_boxes[j])]

\* the land-on condition: falling, and the character's top (position.y) above
\* the platform's top
LandOnCondition(e) ==
    /\ e.before.ctx.velocity.y > 0
    /\ e.before.ctx.position.y < e.obstacle.position.y

LandedOn(e) ==
    /\ e.after.state = "Running"
    /\ e.after.ctx.position.y = FirstHitBox(e).position.y - 120

CanLandOrFall(s) == s \in {"Running", "Sliding", "Jumping"}

\* the outcome of a KnockOut event: Falling with frame 0 and no velocity from
\* Running, Sliding and Jumping, no change from the other states
KnockedFrom(sm) ==
    IF CanLandOrFall(sm.state)
    THEN [state |-> "Falling",
          ctx   |-> [frame    |-> 0,
                     position |-> sm.ctx.position,
                     velocity |-> [x |-> 0, y |-> 0]]]
    ELSE sm

\* C2 as stated: an intersecting platform with the land-on condition makes the
\* character Running at the platform surface minus the player height.
C2_Original ==
    \A i \in 1..Len(checks) :
        (PlatformHit(CheckOf(i)) /\ LandOnCondition(CheckOf(i)))
            => LandedOn(CheckOf(i))

\* C2 (amended): with an intersecting platform and the land-on condition, Land
\* is delivered: a Running, Sliding or Jumping character becomes Running with
\* position.y = surface of the intersected box - 120; a character that is
\* already Falling (or KnockedOut) ignores the Land and is left unchanged.
C2_LandOn ==
    \A i \in 1..Len(checks) :
        (PlatformHit(CheckOf(i)) /\ LandOnCondition(CheckOf(i)))
            => IF CanLandOrFall(CheckOf(i).before.state)
               THEN LandedOn(CheckOf(i))
               ELSE CheckOf(i).after = CheckOf(i).before

C2_Witness ==
    \E i \in 1..Len(checks) :
        /\ PlatformHit(CheckOf(i))
        /\ LandOnCondition(CheckOf(i))
        /\ CheckOf(i).before.state = "Jumping"
        /\ LandedOn(CheckOf(i))
        /\ CheckOf(i).after.ctx.position.y = LOW_PLATFORM - 120

\* C3 as stated: an intersecting platform without the land-on condition makes
\* the character Falling, whatever its state.
C3_Original ==
    \A i \in 1..Len(checks) :
        (PlatformHit(CheckOf(i)) /\ ~LandOnCondition(CheckOf(i)))
            => CheckOf(i).after.state = "Falling"

\* C3 (amended): with an intersecting platform and no land-on condition,
\* KnockOut is delivered and land-on is never chosen: a Running, Sliding or
\* Jumping character becomes Falling (frame 0, velocity 0), a Falling or
\* KnockedOut character is left as it is.
C3_KnockOut ==
    \A i \in 1..Len(checks) :
        (PlatformHit(CheckOf(i)) /\ ~LandOnCondition(CheckOf(i)))
            => /\ CheckOf(i).after = KnockedFrom(CheckOf(i).before)
               /\ CheckOf(i).after.state \in {"Falling", "KnockedOut"}
               /\ CheckOf(i).after.ctx.position = CheckOf(i).before.ctx.position

\* a platform tile hit from the side while still rising
C3_Witness ==
    \E i \in 1..Len(checks) :
        /\ PlatformHit(CheckOf(i))
        /\ CheckOf(i).before.state = "Jumping"
        /\ CheckOf(i).before.ctx.velocity.y <= 0
        /\ CheckOf(i).before.ctx.position.y < CheckOf(i).obstacle.position.y
        /\ CheckOf(i).after.state = "Falling"
        /\ CheckOf(i).after.ctx.velocity.y = 0

BarrierHit(e) ==
    /\ e.obstacle.kind = "Barrier"
    /\ intersects(bounding_box(e.before), e.obstacle.bounding_boxes[1])

\* C4: a barrier that intersects the character's box delivers KnockOut, whatever
\* the character's velocity and position, and never Land (the position is never
\* moved); a barrier that does not intersect leaves the character unchanged.
C4_Barrier ==
    \A i \in 1..Len(checks) :
        CheckOf(i).obstacle.kind = "Barrier"
            => IF BarrierHit(CheckOf(i))
               THEN /\ CheckOf(i).after = KnockedFrom(CheckOf(i).before)
                    /\ CheckOf(i).after.state # "Running"
               ELSE CheckOf(i).after = CheckOf(i).before

\* a barrier hit with downward velocity and the character's top above the
\* barrier's: the case a platform would resolve as land-on
C4_Witness ==
    \E i \in 1..Len(checks) :
        /\ BarrierHit(CheckOf(i))
        /\ CheckOf(i).before.state = "Running"
        /\ CheckOf(i).before.ctx.velocity.y > 0
        /\ CheckOf(i).before.ctx.position.y < CheckOf(i).obstacle.position.y
        /\ CheckOf(i).after.state = "Falling"

\* C5: at every tick boundary a KnockedOut character means GameOver, and an
\* update in Walking yields GameOver exactly when the character is KnockedOut
\* at its end, and Walking otherwise.
C5_KnockedOutIsGameOver ==
    /\ [](boy.state = "KnockedOut" => machine = "GameOver")
    /\ [][machine = "Walking"
            => /\ machine' \in {"Walking", "GameOver"}
               /\ (machine' = "GameOver") <=> (boy'.state = "KnockedOut")]_vars

C5_Witness ==
    /\ machine = "GameOver"
    /\ boy.state = "KnockedOut"
    /\ new_game_event = 0

InitialIdle ==
    [state |-> "Idle",
     ctx   |-> [frame    |-> 0,
                position |-> [x |-> -50, y |-> 480],
                velocity |-> [x |-> 0, y |-> 0]]]

\* a step from GameOver that is neither a key event nor a click is an update
GameOverUpdateStep ==
    /\ machine = "GameOver"
    /\ keystate' = keystate
    /\ new_game_event' # new_game_event + 1

\* C6: GameOver lasts until an update finds a new-game signal; that update
\* yields Ready with the character reset to Idle at (-50, 480), no velocity,
\* frame 0, the starting obstacles generated anew at offset 0, the timeline at
\* their right-most edge, and the background layers untouched.
C6_NewGame ==
    [][machine = "GameOver"
         => /\ (GameOverUpdateStep /\ new_game_event > 0) => machine' = "Ready"
            /\ machine' # "Ready" => machine' = "GameOver" /\ boy' = boy
            /\ machine' = "Ready"
                 => /\ GameOverUpdateStep /\ new_game_event > 0
                    /\ boy' = InitialIdle
                    /\ obstacles' = stone_and_platform(0)
                    /\ \A i \in 1..Len(obstacles') : right(obstacles'[i]) <= timeline'
                    /\ \E i \in 1..Len(obstacles') : right(obstacles'[i]) = timeline'
                    /\ backgrounds' = backgrounds]_vars

\* back in Ready after a run that scrolled the world
C6_Witness ==
    /\ machine = "Ready"
    /\ new_games > 0
    /\ boy = InitialIdle
    /\ obstacles = stone_and_platform(0)
    /\ backgrounds[1].bounding_box.position.x # 0

\* C7: an update in Ready switches to Walking exactly when ArrowRight is
\* pressed; the character is then Running with frame 0 and velocity.x = 3;
\* otherwise the run state stays Ready and the character Idle.
C7_ReadyToWalking ==
    /\ [](machine = "Ready" => boy.state = "Idle")
    /\ [][machine = "Ready"
            => /\ boy' = boy => machine' = "Ready"
               /\ boy' # boy
                    => IF "ArrowRight" \in keystate
                       THEN /\ machine' = "Walking"
                            /\ boy'.state = "Running"
                            /\ boy'.ctx.frame = 0
                            /\ boy'.ctx.velocity.x = 3
                       ELSE /\ machine' = "Ready"
                            /\ boy'.state = "Idle"]_vars

C7_Witness ==
    /\ machine = "Walking"
    /\ walk_ticks = 0
    /\ boy.state = "Running"
    /\ boy.ctx.velocity.y > 1

\* C8: a Sliding character is still Sliding after each of its first 13 updates
\* and Running with frame 0 after the 14th, and Run, Slide and Jump events
\* delivered in between change nothing.
C8_SlidingLasts14Updates ==
    /\ [](boy.state = "Sliding" => updates_in_state < 14)
    /\ [][boy.state = "Sliding"
            => /\ last_event'.type = "Update"
                    => IF updates_in_state + 1 < 14
                       THEN boy'.state = "Sliding"
                       ELSE boy'.state = "Running" /\ boy'.ctx.frame = 0
               /\ last_event'.type \in {"Run", "Slide", "Jump"} => boy' = boy]_vars

C8_Witness ==
    /\ boy.state = "Running"
    /\ boy.ctx.frame = 0
    /\ updates_in_state = 14
    /\ last_event.type = "Update"

\* position.y after k updates of a jump from the floor: the impulse -25 and
\* gravity +1 up to the terminal velocity 20, reached at the 45th update
JumpHeight(k) ==
    IF k <= 45 THEN 480 - 25 * k + (k * (k + 1)) \div 2
    ELSE 390 + 20 * (k - 45)

\* C9: a jump from the floor followed by updates stays Jumping, above the floor
\* and never above y = 180, for 49 updates, and the 50th update makes the
\* character Running at y = 480.
C9_JumpLasts50Updates ==
    /\ []((boy.state = "Jumping" /\ jump_origin_y = 480)
            => /\ updates_in_state < 50
               /\ boy.ctx.position.y = JumpHeight(updates_in_state)
               /\ boy.ctx.position.y >= 180
               /\ updates_in_state \in {24, 25} => boy.ctx.position.y = 180
               /\ updates_in_state > 0 => boy.ctx.position.y < 480)
    /\ [][(boy.state = "Jumping" /\ jump_origin_y = 480 /\ last_event'.type = "Update")
            => IF updates_in_state + 1 < 50
               THEN boy'.state = "Jumping"
               ELSE /\ boy'.state = "Running"
                    /\ boy'.ctx.position.y = 480
                    /\ boy'.ctx.frame = 0]_vars

C9_Witness ==
    /\ boy.state = "Running"
    /\ jump_origin_y = 480
    /\ updates_in_state = 50
    /\ boy.ctx.position.y = 480

\* C10: a Falling character is still Falling after each of its first 28 updates
\* and KnockedOut after the 29th, and no other event changes it meanwhile; a
\* KnockedOut character is changed by no event, only by the reset to Idle.
C10_FallingLasts29Updates ==
    /\ [](boy.state = "Falling" => updates_in_state < 29)
    /\ [][/\ boy.state = "Falling"
             => /\ last_event'.type = "Update"
                     => IF updates_in_state + 1 < 29
                        THEN boy'.state = "Falling"
                        ELSE boy'.state = "KnockedOut"
                /\ (last_event'.type \in EventTypes /\ last_event'.type # "Update")
                     => boy' = boy
          /\ boy.state = "KnockedOut"
             => \/ boy' = boy
                \/ last_event'.type = "Reset" /\ boy' = InitialIdle]_vars

C10_Witness ==
    /\ boy.state = "KnockedOut"
    /\ updates_in_state = 29
    /\ last_event.type = "KnockOut"

----------------------------------------------------------------------------
(* Claims about the game loop.                                             *)

\* a step of the display callback that runs one update
UpdateStep == callback'.total_updates = callback.total_updates + 1

\* a step that ends the display callback
DrawStep == callback.pc = "loop" /\ callback'.pc = "idle"

\* C11: a display callback adds the elapsed time to the accumulator, runs one
\* update per quantum it subtracts, for as long as the accumulator exceeds
\* the quantum, and then draws exactly once, after all the updates; between
\* callbacks the accumulator is within 0 .. quantum, and a callback may run
\* no update at all.  The quantum is FRAME_SIZE, the f32 nearest to 1000/60.
C11_FixedTimestep ==
    /\ [](/\ callback.pc = "idle"
             => /\ 0 <= game_loop.accumulated_delta
                /\ game_loop.accumulated_delta <= FRAME_SIZE
                /\ game_loop.last_frame = callback.perf
                /\ callback.last_step = "draw" => callback.draws = 1
          /\ callback.pc = "loop" => callback.draws = 0)
    /\ [][/\ UpdateStep
             => /\ game_loop.accumulated_delta > FRAME_SIZE
                /\ game_loop'.accumulated_delta =
                     as_f32(game_loop.accumulated_delta - FRAME_SIZE)
                /\ callback'.updates = callback.updates + 1
                /\ callback'.draws = 0
          /\ DrawStep
             => /\ game_loop.accumulated_delta <= FRAME_SIZE
                /\ callback'.updates = callback.updates
                /\ callback'.draws = 1
          /\ callback.pc = "idle" /\ callback'.pc = "loop"
             => game_loop'.accumulated_delta =
                  as_f32(game_loop.accumulated_delta
                         + as_f32((callback'.perf - game_loop.last_frame) * MS))]_vars

\* a callback that ran no update has drawn, after a callback that ran several
C11_Witness ==
    /\ callback.pc = "idle"
    /\ callback.last_step = "draw"
    /\ callback.updates = 0
    /\ callback.draws = 1
    /\ callback.total_updates > 1
    /\ game_loop.accumulated_delta > 0

\* the updates the while loop runs from the accumulator value accumulated_delta
RECURSIVE updates_due(_)
updates_due(accumulated_delta) ==
    IF accumulated_delta > FRAME_SIZE
    THEN 1 + updates_due(as_f32(accumulated_delta - FRAME_SIZE))
    ELSE 0

\* the updates run when the loop, just started, gets one callback after elapsed ms
single_callback_updates(elapsed) == updates_due(as_f32(0 + as_f32(elapsed * MS)))

\* C12: two sequences of display callbacks that start at the same timestamp
\* and end at the same timestamp run the same total number of updates: after
\* every callback the total is the one a single callback spanning the whole
\* elapsed time would have run, however the time was split.
C12_SplitIndependent ==
    callback.pc = "idle"
    => callback.total_updates = single_callback_updates(game_loop.last_frame)

\* the keys whose last event sent by the keyboard closures is a key-down
KeysDown == {code \in KeyCodes : last_key[code] = "KeyDown"}

\* C13 as stated: key events are buffered in a queue and the whole queue is
\* drained at the start of each simulation tick, in arrival order, so every
\* tick is directly preceded by a drain and sees the key state that results
\* from all the events that arrived before it.
C13_Original ==
    [][UpdateStep => /\ callback.last_step = "process_input"
                     /\ callback'.seen = KeysDown]_vars

\* C13, amended: the whole queue is drained once at the start of each
\* display callback, before the updates that callback runs (none, one or
\* several), in arrival order; no event arrives while a callback runs, so
\* at every update the queue is empty and a key is pressed in the key state
\* the update sees iff the last event that arrived for it is a key-down.
C13_DrainedPerCallback ==
    /\ [](callback.pc = "loop"
          => /\ key_events = <<>>
             /\ callback.drains = 1
             /\ \A code \in KeyCodes : is_pressed(keystate, code) <=> code \in KeysDown)
    /\ [][/\ UpdateStep => /\ callback'.seen = KeysDown
                           /\ callback'.drains = callback.drains
                           /\ key_events' = key_events
          /\ callback.pc = "idle" /\ callback'.pc = "loop" => key_events' = <<>>]_vars

\* the second update of a callback has seen a key held down, after a
\* key-up of another key had arrived
C13_Witness ==
    /\ callback.pc = "loop"
    /\ callback.last_step = "update"
    /\ callback.updates >= 2
    /\ callback.seen = {"Space"}
    /\ last_key["ArrowDown"] = "KeyUp"

----------------------------------------------------------------------------
(* Claims about the scrolling world of a Walking update.                   *)

\* a step that is one Walking update
WalkingUpdateStep == machine = "Walking" /\ walk_ticks' = walk_ticks + 1

\* the obstacles of the list obs whose right edge is at most / above bound
RightEdgeAtMost(obs, bound) == SelectSeq(obs, LAMBDA o : right(o) <= bound)

RightEdgeAbove(obs, bound) == SelectSeq(obs, LAMBDA o : right(o) > bound)

\* the obstacles a Walking update adds: none, or the two of a new segment
Generated(before, after) == Len(after) - (Len(before) - Len(dropped'))

boy_of_tick == RedHatBoy_update(handle_keys(boy, keystate))

\* the scroll speed of a Walking update: walking_spped, line 161
speed_of_tick == Walk_velocity(boy_of_tick)

\* C15: a Walking update moves every live obstacle left by exactly the
\* character's current horizontal speed, the displacement that is applied
\* to the two background layers (3 px while Running, Sliding or Jumping).
C15_ObstaclesScrollWithBackground ==
    [][WalkingUpdateStep
       => \A i \in 1..Len(retain(obstacles)) :
            obstacles'[i] = move_horizontally(retain(obstacles)[i], speed_of_tick)]_vars

----------------------------------------------------------------------------
(* Claims about the character's horizontal velocity.                       *)

MovingStates == {"Running", "Sliding", "Jumping"}

\* C16: in every reachable state velocity.x is 3 (RUNNING_SPEED) while the
\* character is Running, Sliding or Jumping and 0 while it is Idle, Falling
\* or KnockedOut, and never another value, whatever events were delivered
\* before: repeated Run events, knock-outs and resets included.
C16_HorizontalVelocity ==
    /\ boy.state \in MovingStates => boy.ctx.velocity.x = RUNNING_SPEED
    /\ boy.state \notin MovingStates => boy.ctx.velocity.x = 0
    /\ walking_speed(boy) \in {0, RUNNING_SPEED}

\* a Run event delivered to a character that is already Sliding
C16_Witness ==
    /\ boy.state = "Sliding"
    /\ last_event.type = "Run"
    /\ boy.ctx.velocity.x = RUNNING_SPEED

----------------------------------------------------------------------------
(* Claims about the background layers and the timeline.                    *)

Image_x(img) == Rect_x(img.bounding_box)

\* C17: in a Walking update a background layer is repositioned exactly when,
\* after scrolling, its right edge is < 0, and then its x is the other
\* layer's right edge; a layer whose right edge is >= 0 after scrolling is
\* only shifted by the scroll speed.
C17_BackgroundWrap ==
    [][WalkingUpdateStep
       => \A k \in {1, 2} :
            LET scrolled == Image_move_horizontally(backgrounds[k], speed_of_tick)
            IN  IF Image_right(scrolled) < 0
                THEN Image_x(backgrounds'[k]) = Image_right(backgrounds'[3 - k])
                ELSE backgrounds'[k] = scrolled]_vars

\* the first layer has just been re-anchored behind the second
C17_Witness ==
    /\ machine = "Walking"
    /\ walk_ticks > 0
    /\ Image_x(backgrounds[1]) = Image_right(backgrounds[2])
    /\ Image_x(backgrounds[2]) < 0

\* the obstacles a Walking update appended behind the ones it kept
NewSegment(before, after) ==
    SubSeq(after, Len(after) - Generated(before, after) + 1, Len(after))

\* C18: every Walking update does exactly one of two things: when the
\* timeline is below TIMELINE_MINIMUM (1000) one segment is generated, its
\* obstacles are appended and the timeline becomes the right-most right edge
\* of the new segment; otherwise no segment is generated and the timeline is
\* advanced by the scroll speed (moved left by the character's speed).
C18_GenerateOrAdvance ==
    [][WalkingUpdateStep
       => IF timeline < TIMELINE_MINIMUM
          THEN /\ Generated(obstacles, obstacles') = 2
               /\ timeline' = right_most(NewSegment(obstacles, obstacles'))
               /\ \A i \in 1..2 : right(NewSegment(obstacles, obstacles')[i]) <= timeline'
          ELSE /\ Generated(obstacles, obstacles') = 0
               /\ timeline' = timeline + speed_of_tick
               /\ timeline' = timeline - walking_speed(boy_of_tick)]_vars

\* a third segment has just been generated, after updates that only
\* advanced the timeline
C18_Witness ==
    /\ machine = "Walking"
    /\ walk_ticks > 1
    /\ Len(obstacles) = 6
    /\ timeline = right_most(SubSeq(obstacles, 5, 6))
    /\ timeline >= TIMELINE_MINIMUM

\* the obstacles kept by a Walking update, where the update has moved them
ScrolledBefore(before, after) == SubSeq(after, 1, Len(after) - Generated(before, after))

\* C19: whenever a Walking update generates a segment, the segment starts
\* exactly OBSTACLE_BUFFER (20) px to the right of the right-most right edge
\* of the obstacles generated before it, at their current scrolled positions.
C19_SegmentStartsAfterBuffer ==
    [][WalkingUpdateStep /\ timeline < TIMELINE_MINIMUM
       => LET offset_x == right_most(ScrolledBefore(obstacles, obstacles'))
                          + OBSTACLE_BUFFER
          IN  NewSegment(obstacles, obstacles')
                \in {stone_and_platform(offset_x), platform_and_stone(offset_x)}]_vars

----------------------------------------------------------------------------
(* Claims about Obstacle::right.                                           *)

\* the right edges of the boxes of obstacle o
RightEdges(o) == {Rect_right(o.bounding_boxes[i]) : i \in 1..Len(o.bounding_boxes)}

\* C20: right() of a Platform is the maximum right edge among all its boxes,
\* for every list of boxes in any order, and right() of a Barrier is the
\* right edge of its single box.
C20_RightIsMaximum ==
    probe.right # NoResult => probe.right[1] = Max(RightEdges(probe.obstacle[1]))

----------------------------------------------------------------------------
(* Claims about Rect::intersects.                                          *)

\* the rectangles under test share an edge and nothing more
ShareOnlyAnEdge(a, b) ==
    \/ Rect_right(a) = Rect_x(b)
    \/ Rect_right(b) = Rect_x(a)
    \/ Rect_bottom(a) = Rect_y(b)
    \/ Rect_bottom(b) = Rect_y(a)

\* C21: intersects is symmetric for all rectangles with non-negative width
\* and height; it is true exactly when A.left < B.right, A.right > B.left,
\* A.top < B.bottom and A.bottom > B.top; two rectangles that share only an
\* edge (A.right = B.left, A.bottom = B.top) do not intersect.
C21_Intersects ==
    probe.result # NoResult
    => /\ probe.result[1] = probe.result[2]
       /\ probe.result[1] <=>
            /\ probe.a.position.x < probe.b.position.x + probe.b.width
            /\ probe.a.position.x + probe.a.width > probe.b.position.x
            /\ probe.a.position.y < probe.b.position.y + probe.b.height
            /\ probe.a.position.y + probe.a.height > probe.b.position.y
       /\ ShareOnlyAnEdge(probe.a, probe.b) => ~probe.result[1]

\* two rectangles of positive size that share an edge have been compared
C21_Witness ==
    /\ probe.result = <<FALSE, FALSE>>
    /\ probe.a.width > 0 /\ probe.a.height > 0
    /\ probe.b.width > 0 /\ probe.b.height > 0
    /\ Rect_right(probe.a) = Rect_x(probe.b)
    /\ Rect_y(probe.a) = Rect_y(probe.b)

----------------------------------------------------------------------------
(* Claims about the character: collision box, physics, events, frames.     *)

\* C22: the character's collision box is its destination box shrunk by the
\* fixed inward margin: left = destination left + 18, width = destination
\* width - 28, height = destination height - 14, top unchanged, for every
\* character position and sprite.
C22_CollisionBox ==
    /\ Rect_x(bounding_box(boy)) = Rect_x(destination_box(boy)) + X_OFFSET
    /\ bounding_box(boy).width = destination_box(boy).width - WIDTH_OFFSET
    /\ bounding_box(boy).height = destination_box(boy).height - Y_OFFSET
    /\ Rect_y(bounding_box(boy)) = Rect_y(destination_box(boy))

\* a step that delivers Update to the character state machine
BoyUpdateStep == last_event'.type = "Update"

UpdatedStates == {"Idle", "Running", "Sliding", "Jumping", "Falling"}

\* C23: every update of Idle, Running, Sliding, Jumping or Falling adds 1 to
\* velocity.y only if it is below the terminal velocity 20, then advances
\* position.y by the new velocity.y and clamps it to the floor 480; in every
\* reachable state velocity.y is within -25..20 and after every update
\* position.y <= 480.
C23_Physics ==
    /\ [](boy.ctx.velocity.y \in JUMP_SPEED..TERMINAL_VELOCITY)
    /\ [][BoyUpdateStep /\ boy.state \in UpdatedStates
          => LET vy == IF boy.ctx.velocity.y < TERMINAL_VELOCITY
                       THEN boy.ctx.velocity.y + GRAVITY
                       ELSE boy.ctx.velocity.y
                 py == boy.ctx.position.y + vy
             IN  /\ boy'.ctx.velocity.y = vy
                 /\ boy'.ctx.position.y = IF py > FLOOR THEN FLOOR ELSE py
                 /\ boy'.ctx.position.y <= FLOOR
                 /\ boy'.ctx.position.x = boy.ctx.position.x
                 /\ boy'.ctx.velocity.x = boy.ctx.velocity.x]_vars

\* a falling character updated once more after reaching the terminal velocity
C23_Witness ==
    /\ boy.state = "Falling"
    /\ last_event.type = "Update"
    /\ updates_in_state > TERMINAL_VELOCITY
    /\ boy.ctx.velocity.y = TERMINAL_VELOCITY
    /\ boy.ctx.position.y = FLOOR

\* C24: a KnockOut event delivered to Running, Sliding or Jumping always
\* yields Falling with the frame counter 0, both velocity components 0 and
\* the position unchanged.
C24_KnockOutFalls ==
    [][last_event'.type = "KnockOut" /\ boy.state \in MovingStates
       => boy' = State("Falling", [frame    |-> 0,
                                   position |-> boy.ctx.position,
                                   velocity |-> Point(0, 0)])]_vars

\* a character knocked out in mid-air
C24_Witness ==
    /\ boy.state = "Falling"
    /\ last_event.type = "KnockOut"
    /\ boy.ctx.frame = 0
    /\ boy.ctx.velocity = Point(0, 0)
    /\ boy.ctx.position.y < FLOOR

\* the event the claim attaches to a key
KeyEvent(code) ==
    CASE code = "ArrowDown"  -> Event("Slide")
      [] code = "ArrowRight" -> Event("Run")
      [] code = "Space"      -> Event("Jump")

\* every order in which the keys of the set pressed_keys can be taken
KeyOrders(pressed_keys) ==
    {order \in [1..Cardinality(pressed_keys) -> pressed_keys] :
       \A i, j \in 1..Cardinality(pressed_keys) : i # j => order[i] # order[j]}

\* the character after the events of the keys in order were delivered one by one
RECURSIVE deliver_keys(_, _)
deliver_keys(sm, order) ==
    IF order = <<>> THEN sm
    ELSE deliver_keys(transition(sm, KeyEvent(Head(order))), Tail(order))

\* the character a Walking update hands to its obstacle checks
AfterPhysics == IF checks' = <<>> THEN boy' ELSE checks'[1].before

\* C25 as stated: in a Walking update the pressed keys are applied as events
\* before the physics update, ArrowDown as Slide, ArrowRight as Run, Space
\* as Jump, and the character after them is the one obtained by delivering
\* those events: the same one in whichever order they are taken.
C25_Original ==
    [][WalkingUpdateStep
       => \A order \in KeyOrders(keystate) :
            AfterPhysics = transition(deliver_keys(boy, order), Event("Update"))]_vars

\* C25, amended: in a Walking update Space delivers Jump first, then
\* ArrowDown delivers Slide, then the physics update follows; ArrowRight is
\* not read.  With Space and ArrowDown both pressed a Running character
\* jumps and does not slide.
C25_KeysThenPhysics ==
    [][WalkingUpdateStep
       => LET jump  == IF "Space" \in keystate
                       THEN transition(boy, Event("Jump")) ELSE boy
              slide == IF "ArrowDown" \in keystate
                       THEN transition(jump, Event("Slide")) ELSE jump
          IN  /\ AfterPhysics = transition(slide, Event("Update"))
              /\ boy.state = "Running" /\ {"Space", "ArrowDown"} \subseteq keystate
                 => AfterPhysics.state = "Jumping"]_vars

\* a character that jumped in the last update with every key held down
C25_Witness ==
    /\ machine = "Walking"
    /\ keystate = KeyCodes
    /\ boy.state = "Jumping"
    /\ boy.ctx.frame = 1
    /\ boy.ctx.velocity.y = JUMP_SPEED + GRAVITY

\* the frame count of the states whose update has no exit condition
FrameCount(state) == IF state = "Idle" THEN IDLE_FRAMES ELSE RUN_FRAMES

CyclingStates == {"Idle", "Running"}

\* an Update delivered to an Idle or Running character that stays as it is
CyclingUpdateStep ==
    /\ BoyUpdateStep
    /\ boy.state \in CyclingStates
    /\ boy'.state = boy.state

\* C26 as stated: the frame counter wraps modulo the frame count: in Idle
\* and Running it is always less than the state's frame count and returns
\* to 0 with a period equal to the frame count (29 for Idle, 23 for Running).
C26_Original ==
    /\ [](boy.state \in CyclingStates => boy.ctx.frame < FrameCount(boy.state))
    /\ [][CyclingUpdateStep
          => boy'.ctx.frame = (boy.ctx.frame + 1) % FrameCount(boy.state)]_vars

\* C26, amended: the frame counter runs from 0 up to the frame count itself
\* and then returns to 0: in Idle and Running it is always at most the
\* state's frame count and the period is the frame count plus one (30
\* updates for Idle, 24 for Running).
C26_FrameCycle ==
    /\ [](boy.state \in CyclingStates
          => boy.ctx.frame \in 0..FrameCount(boy.state))
    /\ [][CyclingUpdateStep
          => boy'.ctx.frame = (boy.ctx.frame + 1) % (FrameCount(boy.state) + 1)]_vars

\* an idle character whose counter has reached the frame count
C26_Witness ==
    /\ boy.state = "Idle"
    /\ last_event.type = "Update"
    /\ boy.ctx.frame = IDLE_FRAMES
----------------------------------------------------------------------------
(* Claims about starting the game, checked under SpecStart.                *)

\* the variables that make up the instance of the game
instance_vars == <<boy, machine, backgrounds, obstacles, timeline>>

\* the step of initialize that matches on self.machine
InitializeMatchStep == startup.pc = InitializeFirst /\ startup'.pc # startup.pc

\* C27: initialize on an already initialized instance fails with an error and
\* leaves the instance unchanged; on an instance that is not initialized yet,
\* when no step of initialize fails (the asset loads, the decoding of the two
\* JSON files, the creation of the audio context and the start of the
\* background song), it returns an instance in Ready whose character is Idle.
C27_Initialize ==
    /\ [][InitializeMatchStep /\ startup.instance = "Some"
            => /\ startup'.outcome = "Err"
               /\ startup'.failed = InitializeFirst
               /\ startup'.pc = Returned
               /\ UNCHANGED instance_vars]_vars
    /\ [][startup.pc = InitializeLast /\ startup'.pc = InitializeLast + 1
            => /\ startup.instance = "None"
               /\ machine = "None"
               /\ machine' = "Ready"
               /\ boy' = Idle_new]_vars
    /\ [](startup.instance = "None" /\ startup.failed = 0
            => machine = (IF startup.pc > InitializeLast THEN "Ready" ELSE "None"))

\* C27 witness: initialize has refused an instance that was initialized already
C27_Witness ==
    /\ startup.instance = "Some"
    /\ startup.outcome = "Err"
    /\ startup.failed = InitializeFirst
    /\ machine = "Ready"

\* C28: while the loads of initialize have not all completed there has been
\* no update and no draw and no display callback is scheduled; when a step of
\* GameLoop::start has failed, start has ended with that failure, and no
\* update, no draw and no display callback follows.
C28_NothingBeforeLoaded ==
    /\ startup.pc <= InitializeLast
         => /\ ~startup.scheduled
            /\ callback.total_updates = 0
            /\ callback.draws = 0
            /\ callback.pc = "idle"
    /\ startup.failed # 0
         => /\ startup.outcome \in {"Err", "Panic"}
            /\ startup.pc = Returned
            /\ ~startup.scheduled
            /\ callback.total_updates = 0
            /\ callback.draws = 0
            /\ callback.pc = "idle"
    /\ callback.total_updates + callback.draws > 0
         => startup.outcome = "Ok" /\ startup.failed = 0 /\ machine = "Ready"

\* C28 witness: a load of initialize has failed and start has returned the error
C28_Witness ==
    /\ startup.failed > InitializeFirst
    /\ startup.failed <= InitializeLast
    /\ StartSteps[startup.failed].kind = "load"
    /\ startup.outcome = "Err"
    /\ startup.pc = Returned

----------------------------------------------------------------------------
(* Claims about an atlas that lacks a cell, checked under SpecSheet.       *)

\* a Walking update in which a check_intersection needed a cell the atlas lacks
MissingCellStep ==
    /\ machine = "Walking"
    /\ walk_ticks' = walk_ticks + 1
    /\ checks' # <<>>
    /\ cell_not_found(checks'[Len(checks')].before)

\* C29: when the frame name of the character has no cell in the atlas, the
\* operation that needed the cell leaves the character, the obstacles and the
\* run state as they were before it began.
C29_MissingCellLeavesState ==
    [][MissingCellStep => UNCHANGED <<boy, obstacles, machine>>]_vars

----------------------------------------------------------------------------
(* Claims about the run states that leave the world alone, checked under   *)
(* Spec.                                                                   *)

\* C30: a step taken in Ready, the update that switches to Walking included,
\* leaves the backgrounds, the obstacles and the timeline unchanged; a step
\* taken in GameOver while no new-game signal waits leaves the character, the
\* backgrounds, the obstacles, the timeline and the run state unchanged,
\* whatever keys are pressed.
C30_OnlyWalkingChangesTheWorld ==
    [][/\ machine = "Ready" => UNCHANGED <<backgrounds, obstacles, timeline>>
       /\ machine = "GameOver" /\ new_game_event = 0
            => UNCHANGED <<boy, backgrounds, obstacles, timeline, machine>>]_vars

\* C30 witness: an update has run in GameOver with keys pressed and no signal
\* waiting (the checks of the tick that ended the game are cleared)
C30_Witness ==
    /\ machine = "GameOver"
    /\ new_game_event = 0
    /\ checks = <<>>
    /\ keystate # {}
    /\ boy.state = "KnockedOut"

----------------------------------------------------------------------------
(* Claims about the two state machines, their coupling and their reachable *)
(* states.                                                                 *)

\* the steps of the run state machine: Ready -> Walking -> GameOver -> Ready
RunStateSteps ==
    {<<"Ready", "Walking">>, <<"Walking", "GameOver">>, <<"GameOver", "Ready">>}

\* the character states each run state is found with between updates
CharacterStatesOf(run_state) ==
    CASE run_state = "Ready"    -> {"Idle"}
      [] run_state = "Walking"  -> {"Running", "Sliding", "Jumping", "Falling"}
      [] run_state = "GameOver" -> {"KnockedOut"}
      [] OTHER                  -> {}

\* C31: the run state only changes along Ready -> Walking -> GameOver ->
\* Ready, and between updates Ready goes with an Idle character, Walking with
\* a Running, Sliding, Jumping or Falling one, GameOver with a KnockedOut one.
C31_RunStateCycle ==
    /\ [](boy.state \in CharacterStatesOf(machine))
    /\ [][machine' # machine => <<machine, machine'>> \in RunStateSteps]_vars

\* C31 witness: a second game is being played: the cycle was gone round once
\* and Walking was entered again
C31_Witness ==
    /\ new_games > 0
    /\ machine = "Walking"
    /\ walk_ticks > 0
    /\ boy.state \in {"Sliding", "Jumping"}

\* the state changes of the character that an event can make
CharacterSteps ==
    {<<"Idle", "Running">>, <<"Running", "Sliding">>, <<"Running", "Jumping">>,
     <<"Sliding", "Running">>, <<"Jumping", "Running">>, <<"Running", "Falling">>,
     <<"Sliding", "Falling">>, <<"Jumping", "Falling">>, <<"Falling", "KnockedOut">>}

\* an event was delivered through transition (RedHatBoy::reset is not an event)
EventStep == last_event'.type \in EventTypes

\* C32: an event changes the character's state only along Idle -> Running,
\* Running -> Sliding, Running -> Jumping, Sliding -> Running, Jumping ->
\* Running, Running / Sliding / Jumping -> Falling and Falling -> KnockedOut;
\* so after any event a Falling or KnockedOut character is Falling or
\* KnockedOut, and no event makes the character Idle that was not Idle.
C32_DefinedTransitionsOnly ==
    [][EventStep =>
         /\ boy'.state # boy.state => <<boy.state, boy'.state>> \in CharacterSteps
         /\ boy.state \in {"Falling", "KnockedOut"}
              => boy'.state \in {"Falling", "KnockedOut"}
         /\ boy'.state = "Idle" => boy.state = "Idle"]_vars

\* C32 witness: a Land was delivered to a Falling character, which still falls
C32_Witness ==
    /\ last_event.type = "Land"
    /\ boy.state = "Falling"
    /\ boy.ctx.frame > 0

\* C33: whenever the display callback can call update, the instance it
\* drives holds a run state machine, so the assertion of WalkTheDog::update
\* holds; the machine is lost only by an update that panics, after which no
\* callback is scheduled and update is not called again.
C33_MachineHeld ==
    /\ [](update_called => machine \in {"Ready", "Walking", "GameOver"})
    /\ [][machine # "None" /\ machine' = "None"
            => ~startup'.scheduled /\ startup'.outcome = "Panic"]_vars

\* C33 witness: the loop was started on a new instance and has driven it
\* through a whole game and a new-game signal
C33_Witness ==
    /\ startup.instance = "None"
    /\ update_called
    /\ new_games > 0
    /\ machine = "Walking"

\* the frame-count constant of the animation a state is drawn with
AnimationFrames(state) ==
    CASE state = "Idle"    -> IDLE_FRAMES
      [] state = "Running" -> RUN_FRAMES
      [] state = "Sliding" -> SLIDING_FRAMES
      [] state = "Jumping" -> JUMPING_FRAMES
      [] OTHER             -> FALLING_FRAMES

\* the highest sprite number of each animation
SpritesOf(name) ==
    CASE name = IDLE_FRAME_NAME    -> 10
      [] name = RUN_FRAME_NAME     -> 8
      [] name = SLIDING_FRAME_NAME -> 5
      [] name = JUMPING_FRAME_NAME -> 12
      [] OTHER                     -> 10

\* C34: in every reachable state of the character the frame counter is
\* between 0 and the frame count of the state's animation, and the sprite
\* number frame / 3 + 1 of its frame name is between 1 and 10 (Idle), 8 (Run),
\* 5 (Slide), 12 (Jump), 10 (Dead).
C34_FrameWithinAnimation ==
    /\ boy.ctx.frame >= 0
    /\ boy.ctx.frame <= AnimationFrames(boy.state)
    /\ frame_name(boy)[2] >= 1
    /\ frame_name(boy)[2] <= SpritesOf(frame_name(boy)[1])

\* C34 witness: a Land was delivered to a Running character whose frame
\* counter is at its highest, and the counter was kept
C34_Witness ==
    /\ last_event.type = "Land"
    /\ boy.state = "Running"
    /\ boy.ctx.frame = RUN_FRAMES

----------------------------------------------------------------------------
(* Claims about keys and layers in the running game, checked under Spec    *)
(* and SpecLoop.                                                           *)

\* a Walking update of a Running character with Space and ArrowDown pressed
JumpAndSlideStep ==
    /\ WalkingUpdateStep
    /\ boy.state = "Running"
    /\ {"Space", "ArrowDown"} \subseteq keystate

\* C35 as stated: with Space and ArrowDown both pressed in a Walking update of
\* a Running character, the character ends the update Jumping.
C35_Original ==
    [][JumpAndSlideStep => boy'.state = "Jumping"]_vars

\* C35, amended: with Space and ArrowDown both pressed in a Walking update of
\* a Running character, Jump is delivered first and Slide changes nothing:
\* the character meets the obstacle checks Jumping, with the jump's velocity
\* and a frame counter restarted, and ends the update Jumping, or Falling
\* when an obstacle knocks it out in that same update; it never ends it
\* Sliding.
C35_JumpBeforeSlide ==
    [][JumpAndSlideStep
       => /\ handle_keys(boy, keystate) = transition(boy, Event("Jump"))
          /\ AfterPhysics.state = "Jumping"
          /\ AfterPhysics.ctx.velocity.y = JUMP_SPEED + GRAVITY
          /\ boy'.state \in {"Jumping", "Falling"}
          /\ boy'.state = "Falling"
               => \E i \in 1..Len(checks') :
                    /\ checks'[i].before.state = "Jumping"
                    /\ checks'[i].after.state = "Falling"]_vars

\* C35 witness: a Running character that was standing on the ground has
\* jumped in an update with Space and ArrowDown pressed
C35_Witness ==
    /\ machine = "Walking"
    /\ {"Space", "ArrowDown"} \subseteq keystate
    /\ boy.state = "Jumping"
    /\ boy.ctx.frame = 1
    /\ boy.ctx.velocity.y = JUMP_SPEED + GRAVITY

\* C36: the key state changes only where a display callback begins, before
\* its first update: every update of the callback sees the key state its
\* first update saw, the queue stays empty (no event arrives inside a
\* callback), and a key whose key-down and key-up both arrived since the
\* callback before is seen as pressed by none of them.
C36_OneKeyStatePerCallback ==
    /\ [](callback.pc = "loop" => key_events = <<>> /\ callback.tapped \cap keystate = {})
    /\ [][/\ callback.pc = "loop" => keystate' = keystate /\ key_events' = key_events
          /\ UpdateStep => /\ callback'.seen = keystate
                           /\ callback'.seen \cap callback.tapped = {}
                           /\ callback.updates > 0 => callback'.seen = callback.seen]_vars

\* C36 witness: the third update of a callback has run; Space was pressed and
\* released since the callback before and ArrowRight is held
C36_Witness ==
    /\ callback.pc = "loop"
    /\ callback.last_step = "update"
    /\ callback.updates >= 3
    /\ callback.tapped = {"Space"}
    /\ callback.seen = {"ArrowRight"}

\* C37: between updates the two background layers have the same width and
\* one begins where the other ends: the x of one is the right edge of the
\* other, so their x positions differ by exactly the width.
C37_LayersTile ==
    /\ backgrounds[1].bounding_box.width = backgrounds[2].bounding_box.width
    /\ backgrounds[1].bounding_box.width \in LayerWidths
    /\ \/ Image_x(backgrounds[2]) = Image_right(backgrounds[1])
       \/ Image_x(backgrounds[1]) = Image_right(backgrounds[2])
    /\ \/ Image_x(backgrounds[2]) - Image_x(backgrounds[1])
            = backgrounds[1].bounding_box.width
       \/ Image_x(backgrounds[1]) - Image_x(backgrounds[2])
            = backgrounds[1].bounding_box.width

\* C37 witness: in a second game, after the first layer was re-anchored
\* behind the second and carried over the reset
C37_Witness ==
    /\ new_games > 0
    /\ machine = "Walking"
    /\ walk_ticks > 0
    /\ Image_x(backgrounds[1]) = Image_right(backgrounds[2])
    /\ Image_x(backgrounds[2]) < 0

====
